---- MODULE Spec2Model ----
(***************************************************************************)
(* Model of src/src/cross_account_codebuild_proxy.py: a Lambda function    *)
(* that assumes a cross-account role and either starts a CodeBuild build   *)
(* (START_BUILD) or reads the status of one (CHECK_STATUS).                *)
(*                                                                         *)
(* Python values are tagged tuples of strings: <<"none">> is None,         *)
(* <<"str", s>> a string, <<"list", x, ...>> a list.  The event is a       *)
(* function from the keys it holds to such values; reading a key outside   *)
(* its domain is Python's KeyError.                                        *)
(***************************************************************************)
EXTENDS FiniteSets, Integers, Sequences, TLC

\* ---------------------------------------------------------------- bounds
NumInvocations == 2
MaxBuilds == 2

Invocations == 1..NumInvocations

\* ------------------------------------------------------- Python values
None == <<"none">>
Str(s) == <<"str", s>>
EmptyList == <<"list">>
Absent == <<"absent">>

\* variant: the tests written as `is None` instead of truthiness
Truthy_not_none(v) == v[1] # "none"

\* bool(v) as the `if not event[...]` tests evaluate it
Truthy(v) ==
    CASE v[1] = "none" -> FALSE
      [] v[1] = "str"  -> v[2] # ""
      [] v[1] = "list" -> Len(v) > 1
      [] OTHER         -> FALSE

\* f"{v}" as the log and error messages interpolate it
Fmt(v) ==
    CASE v[1] = "none" -> "None"
      [] v[1] = "str"  -> v[2]
      [] v[1] = "list" -> IF Len(v) > 1 THEN "[...]" ELSE "[]"
      [] OTHER         -> "?"

Keys == {"invocationType", "roleArn", "region", "codeBuildProject",
         "environmentVariables", "jobId", "CodeBuildJobStatus",
         "CodeBuildJobId", "executionName"}

EmptyEvent == [k \in {} |-> None]

\* dict.update({k: v})
Update(ev, k, v) == [x \in (DOMAIN ev) \cup {k} |-> IF x = k THEN v ELSE ev[x]]

\* ------------------------------------------------- errors and log records
NoError == [type |-> "", msg |-> <<"", "">>]
Err(t, prefix, ident) == [type |-> t, msg |-> <<prefix, ident>>]
KeyError(k) == Err("KeyError", "", k)
Log(level, prefix, ident) == [level |-> level, msg |-> <<prefix, ident>>]

\* ------------------------------------------------------ service responses
BuildIds == {"proj:abcd", "proj:efgh"}
Statuses == {"IN_PROGRESS", "SUCCEEDED"}
BuildLists == UNION {[1..n -> Statuses] : n \in 0..MaxBuilds}
NoResponse == [status |-> "none", id |-> "", builds |-> <<>>]

VARIABLES
    pc,         \* pc[i]: the function invocation i is about to run
    event,      \* event[i]: the event dict, mutated in place
    input,      \* input[i]: the event as the caller passed it
    outcome,    \* outcome[i]: "running", "returned", "returnedNone", "raised"
    error,      \* error[i]: the exception that left lambda_handler
    logs,       \* logs[i]: the records the logger emitted
    session,    \* session[i]: credentials held by boto3_session (0: none)
    client,     \* client[i]: credentials and region of codebuild_client
    stsCalls,   \* stsCalls[i]: RoleArn arguments of the sts assume_role calls
    cbCalls,    \* cbCalls[i]: the CodeBuild calls made
    stsResp,    \* stsResp[i]: "none", "ok", "fail"
    cbResp,     \* cbResp[i]: the CodeBuild response
    stsIssued   \* STS: stsIssued[c] is the invocation credentials c went to

vars == <<pc, event, input, outcome, error, logs, session, client,
          stsCalls, cbCalls, stsResp, cbResp, stsIssued>>

NoClient == [cred |-> 0, region |-> None]

\* variant: the second test written as an else branch
lambda_handler_else(ev) ==
    IF "invocationType" \notin DOMAIN ev
    THEN [pc |-> "done", outcome |-> "raised",
          error |-> KeyError("invocationType"), logs |-> <<>>]
    ELSE IF ev["invocationType"] = Str("START_BUILD")
    THEN [pc |-> "start_build_handler", outcome |-> "running", error |-> NoError,
          logs |-> <<Log("info", "Starting CodeBuild Project", "")>>]
    ELSE [pc |-> "check_build_status_handler", outcome |-> "running",
          error |-> NoError,
          logs |-> <<Log("info", "Checking CodeBuild Job Status", "")>>]

\* variant: the CHECK_STATUS branch calling start_build_handler
lambda_handler_same_handler(ev) ==
    IF "invocationType" \notin DOMAIN ev
    THEN [pc |-> "done", outcome |-> "raised",
          error |-> KeyError("invocationType"), logs |-> <<>>]
    ELSE IF ev["invocationType"] \in {Str("START_BUILD"), Str("CHECK_STATUS")}
    THEN [pc |-> "start_build_handler", outcome |-> "running", error |-> NoError,
          logs |-> <<Log("info", "Starting CodeBuild Project", "")>>]
    ELSE [pc |-> "done", outcome |-> "returnedNone", error |-> NoError,
          logs |-> <<>>]

\* --------------------------------------------------------- lambda_handler
\* lines 182-187: dispatch on event['invocationType']
lambda_handler(ev) ==
    IF "invocationType" \notin DOMAIN ev
    THEN [pc |-> "done", outcome |-> "raised",
          error |-> KeyError("invocationType"), logs |-> <<>>]
    ELSE IF ev["invocationType"] = Str("START_BUILD")
    THEN [pc |-> "start_build_handler", outcome |-> "running", error |-> NoError,
          logs |-> <<Log("info", "Starting CodeBuild Project", "")>>]
    ELSE IF ev["invocationType"] = Str("CHECK_STATUS")
    THEN [pc |-> "check_build_status_handler", outcome |-> "running",
          error |-> NoError,
          logs |-> <<Log("info", "Checking CodeBuild Job Status", "")>>]
    ELSE [pc |-> "done", outcome |-> "returnedNone", error |-> NoError,
          logs |-> <<>>]

Raised(ev, e) == [pc |-> "done", outcome |-> "raised", error |-> e, event |-> ev]
Proceed(ev, p) == [pc |-> p, outcome |-> "running", error |-> NoError, event |-> ev]

\* lines 116-123: presence checks of start_build_handler
start_build_handler(ev) ==
    IF "roleArn" \notin DOMAIN ev THEN Raised(ev, KeyError("roleArn"))
    ELSE IF ~Truthy(ev["roleArn"])
    THEN Raised(ev, Err("Exception", "Event did not include the roleArn", ""))
    ELSE IF "codeBuildProject" \notin DOMAIN ev
    THEN Raised(ev, KeyError("codeBuildProject"))
    ELSE IF ~Truthy(ev["codeBuildProject"])
    THEN Raised(ev, Err("Exception",
                        "Event did not include the target CodeBuild Project", ""))
    ELSE IF "region" \notin DOMAIN ev THEN Raised(ev, KeyError("region"))
    ELSE IF ~Truthy(ev["region"])
    THEN Raised(ev, Err("Exception",
           "Event did not include the region for the target CodeBuild Project", ""))
    ELSE IF "environmentVariables" \notin DOMAIN ev
    THEN Raised(ev, KeyError("environmentVariables"))
    ELSE IF ~Truthy(ev["environmentVariables"])
    THEN Proceed(Update(ev, "environmentVariables", EmptyList), "sb_assume_role")
    ELSE Proceed(ev, "sb_assume_role")

\* lines 147-152: presence checks of check_build_status_handler
check_build_status_handler(ev) ==
    IF "roleArn" \notin DOMAIN ev THEN Raised(ev, KeyError("roleArn"))
    ELSE IF ~Truthy(ev["roleArn"])
    THEN Raised(ev, Err("Exception", "Event did not include the roleArn", ""))
    ELSE IF "jobId" \notin DOMAIN ev THEN Raised(ev, KeyError("jobId"))
    ELSE IF ~Truthy(ev["jobId"])
    THEN Raised(ev, Err("Exception",
                        "Event did not include the CodeBuild ID to check", ""))
    ELSE IF "region" \notin DOMAIN ev THEN Raised(ev, KeyError("region"))
    ELSE IF ~Truthy(ev["region"])
    THEN Raised(ev, Err("Exception",
           "Event did not include the region for the target CodeBuild ID", ""))
    ELSE Proceed(ev, "cs_assume_role")

\* variant: the except block logging without re-raising
assume_role_swallow(role_arn, ok) ==
    IF ok
    THEN [raised |-> FALSE, error |-> NoError,
          logs |-> <<Log("info", "Assuming Role: ", Fmt(role_arn))>>]
    ELSE [raised |-> FALSE, error |-> NoError,
          logs |-> <<Log("info", "Assuming Role: ", Fmt(role_arn)),
                     Log("exception", "Failed to assume role", "")>>]

\* lines 42-54: assume_role, given whether sts_client.assume_role succeeded
assume_role(role_arn, ok) ==
    IF ok
    THEN [raised |-> FALSE, error |-> NoError,
          logs |-> <<Log("info", "Assuming Role: ", Fmt(role_arn))>>]
    ELSE [raised |-> TRUE,
          error |-> Err("RuntimeError", "Could not assume role: ", Fmt(role_arn)),
          logs |-> <<Log("info", "Assuming Role: ", Fmt(role_arn)),
                     Log("exception", "Failed to assume role", "")>>]

\* variant: the session kept in a module-level global, so that the client is
\* built from whichever credentials were obtained last
client_credentials_global(i, sessions, issued) == Len(issued)

\* lines 126, 155: the credentials boto3_session.client() binds into the client
client_credentials(i, sessions, issued) == sessions[i]

\* variant: the except block re-raising without the logger.exception call
start_codebuild_project_nolog(codebuild_project, resp) ==
    IF resp.status = "ok"
    THEN [raised |-> FALSE, error |-> NoError, id |-> resp.id,
          logs |-> <<Log("info", "Started CodeBuild Job: ", resp.id)>>]
    ELSE [raised |-> TRUE, id |-> "",
          error |-> Err("RuntimeError", "Could not start CodeBuild Project: ",
                        Fmt(codebuild_project)),
          logs |-> <<>>]

\* lines 69-81: start_codebuild_project, given the start_build response
start_codebuild_project(codebuild_project, resp) ==
    IF resp.status = "ok"
    THEN [raised |-> FALSE, error |-> NoError, id |-> resp.id,
          logs |-> <<Log("info", "Started CodeBuild Job: ", resp.id)>>]
    ELSE [raised |-> TRUE, id |-> "",
          error |-> Err("RuntimeError", "Could not start CodeBuild Project: ",
                        Fmt(codebuild_project)),
          logs |-> <<Log("exception", "Failed to start CodeBuild Project: ",
                         Fmt(codebuild_project))>>]

\* variant: setdefault instead of update, keeping result fields already there
start_build_result_setdefault(ev, id) ==
    LET a == IF "CodeBuildJobStatus" \in DOMAIN ev THEN ev
             ELSE Update(ev, "CodeBuildJobStatus", Str("IN_PROGRESS"))
    IN IF "CodeBuildJobId" \in DOMAIN a THEN a
       ELSE Update(a, "CodeBuildJobId", Str(id))

\* lines 129-134: the result fields start_build_handler writes
start_build_result(ev, id) ==
    Update(Update(ev, "CodeBuildJobStatus", Str("IN_PROGRESS")),
           "CodeBuildJobId", Str(id))

\* variant: index -1 instead of 0
job_status_last(builds) == builds[Len(builds)]

\* line 102: codebuild_response['builds'][0]['buildStatus']
job_status(builds) == builds[1]

\* lines 95-103: check_codebuild_status, given the batch_get_builds response
check_codebuild_status(codebuild_job_id, resp) ==
    IF resp.status # "ok"
    THEN [raised |-> TRUE, status |-> "",
          error |-> Err("RuntimeError", "Exception checking job status: ",
                        Fmt(codebuild_job_id)),
          logs |-> <<Log("exception", "Failed to check job status: ",
                         Fmt(codebuild_job_id))>>]
    ELSE IF Len(resp.builds) = 0
    THEN [raised |-> TRUE, status |-> "",
          error |-> Err("IndexError", "list index out of range", ""),
          logs |-> <<>>]
    ELSE [raised |-> FALSE, status |-> job_status(resp.builds),
          error |-> NoError, logs |-> <<>>]

\* variant: a fresh dict holding only the result fields
check_status_result_fresh(ev, status) ==
    [k \in {"CodeBuildJobStatus", "CodeBuildJobId"} |->
        IF k = "CodeBuildJobStatus" THEN Str(status) ELSE ev["jobId"]]

\* lines 158-163: the result fields check_build_status_handler writes
check_status_result(ev, status) ==
    Update(Update(ev, "CodeBuildJobStatus", Str(status)),
           "CodeBuildJobId", ev["jobId"])

\* ------------------------------------------------------------------ inputs
InvocationTypes == {Absent, Str("START_BUILD"), Str("CHECK_STATUS"), Str("STOP_BUILD")}
RoleArns == {Absent, None, Str(""), Str("arn:aws:iam::111111111111:role/x")}
Regions == {Absent, None, Str(""), Str("us-east-1")}
Projects == {Absent, None, Str(""), Str("proj")}
EnvVars == {Absent, None, EmptyList, <<"list", "STAGE=prod">>}
JobIds == {Absent, None, Str(""), Str("proj:abcd")}
OldStatuses == {Absent, Str("FAILED")}
OldJobIds == {Absent, Str("proj:0000")}
ExecutionNames == {Absent, Str("run-1")}

MkEvent(it, ra, rg, pj, envv, jb, os, oj, en) ==
    LET c == [invocationType |-> it, roleArn |-> ra, region |-> rg,
              codeBuildProject |-> pj, environmentVariables |-> envv,
              jobId |-> jb, CodeBuildJobStatus |-> os, CodeBuildJobId |-> oj,
              executionName |-> en]
    IN [k \in {x \in Keys : c[x] # Absent} |-> c[k]]

InputEvents ==
    {MkEvent(it, ra, rg, pj, envv, jb, os, oj, en) :
        it \in InvocationTypes, ra \in RoleArns, rg \in Regions, pj \in Projects,
        envv \in EnvVars, jb \in JobIds, os \in OldStatuses, oj \in OldJobIds,
        en \in ExecutionNames}

\* the requests of an orchestrator that starts a build and polls it
ConcRequests ==
    {MkEvent(Str("START_BUILD"), Str("arn:aws:iam::111111111111:role/x"),
             Str("us-east-1"), Str("proj"), EmptyList, Absent, Absent, Absent, Absent),
     MkEvent(Str("CHECK_STATUS"), Str("arn:aws:iam::111111111111:role/x"),
             Str("us-east-1"), Absent, Absent, Str("proj:abcd"), Absent, Absent, Absent),
     MkEvent(Str("CHECK_STATUS"), Str("arn:aws:iam::222222222222:role/y"),
             Str("us-east-1"), Absent, Absent, Str("proj:abcd"), Absent, Absent, Absent)}

\* -------------------------------------------------------------------- Init
InitCommon ==
    /\ input = event
    /\ outcome = [i \in Invocations |-> "running"]
    /\ error = [i \in Invocations |-> NoError]
    /\ logs = [i \in Invocations |-> <<>>]
    /\ session = [i \in Invocations |-> 0]
    /\ client = [i \in Invocations |-> NoClient]
    /\ stsCalls = [i \in Invocations |-> <<>>]
    /\ cbCalls = [i \in Invocations |-> <<>>]
    /\ stsResp = [i \in Invocations |-> "none"]
    /\ cbResp = [i \in Invocations |-> NoResponse]
    /\ stsIssued = <<>>

\* one invocation with any event; the other execution slots stay idle
Init ==
    /\ \E e \in InputEvents :
          event = [i \in Invocations |-> IF i = 1 THEN e ELSE EmptyEvent]
    /\ pc = [i \in Invocations |-> IF i = 1 THEN "lambda_handler" ELSE "idle"]
    /\ InitCommon

\* concurrent invocations of the orchestrator's requests
InitConc ==
    /\ event \in [Invocations -> ConcRequests]
    /\ pc = [i \in Invocations |-> "lambda_handler"]
    /\ InitCommon

\* ----------------------------------------------------------------- actions
External == <<session, client, stsCalls, cbCalls, stsResp, cbResp, stsIssued>>

\* lines 167-187
LambdaHandler(i) ==
    /\ pc[i] = "lambda_handler"
    /\ LET r == lambda_handler(event[i]) IN
         /\ pc' = [pc EXCEPT ![i] = r.pc]
         /\ outcome' = [outcome EXCEPT ![i] = r.outcome]
         /\ error' = [error EXCEPT ![i] = r.error]
         /\ logs' = [logs EXCEPT ![i] = @ \o r.logs]
    /\ UNCHANGED <<event, input, External>>

\* lines 116-123
StartBuildHandler(i) ==
    /\ pc[i] = "start_build_handler"
    /\ LET r == start_build_handler(event[i]) IN
         /\ pc' = [pc EXCEPT ![i] = r.pc]
         /\ outcome' = [outcome EXCEPT ![i] = r.outcome]
         /\ error' = [error EXCEPT ![i] = r.error]
         /\ event' = [event EXCEPT ![i] = r.event]
    /\ UNCHANGED <<input, logs, External>>

\* lines 147-152
CheckBuildStatusHandler(i) ==
    /\ pc[i] = "check_build_status_handler"
    /\ LET r == check_build_status_handler(event[i]) IN
         /\ pc' = [pc EXCEPT ![i] = r.pc]
         /\ outcome' = [outcome EXCEPT ![i] = r.outcome]
         /\ error' = [error EXCEPT ![i] = r.error]
         /\ event' = [event EXCEPT ![i] = r.event]
    /\ UNCHANGED <<input, logs, External>>

\* lines 125, 154 with 32-54: the sts call and its outcome
AssumeRole(i) ==
    /\ pc[i] \in {"sb_assume_role", "cs_assume_role"}
    /\ \E ok \in BOOLEAN :
         LET r == assume_role(event[i]["roleArn"], ok) IN
         /\ stsCalls' = [stsCalls EXCEPT ![i] = Append(@, event[i]["roleArn"])]
         /\ stsResp' = [stsResp EXCEPT ![i] = IF ok THEN "ok" ELSE "fail"]
         /\ stsIssued' = IF ok THEN Append(stsIssued, i) ELSE stsIssued
         /\ session' = [session EXCEPT ![i] = IF ok THEN Len(stsIssued) + 1 ELSE @]
         /\ logs' = [logs EXCEPT ![i] = @ \o r.logs]
         /\ error' = [error EXCEPT ![i] = r.error]
         /\ outcome' = [outcome EXCEPT ![i] = IF r.raised THEN "raised" ELSE @]
         /\ pc' = [pc EXCEPT ![i] =
                     IF r.raised THEN "done"
                     ELSE IF @ = "sb_assume_role" THEN "sb_client" ELSE "cs_client"]
    /\ UNCHANGED <<event, input, client, cbCalls, cbResp>>

\* lines 126, 155: boto3_session.client('codebuild', region_name=...)
CreateClient(i) ==
    /\ pc[i] \in {"sb_client", "cs_client"}
    /\ \E ok \in BOOLEAN :
         IF ok
         THEN /\ client' = [client EXCEPT ![i] =
                    [cred |-> client_credentials(i, session, stsIssued),
                     region |-> event[i]["region"]]]
              /\ pc' = [pc EXCEPT ![i] = IF @ = "sb_client"
                                         THEN "start_codebuild_project"
                                         ELSE "check_codebuild_status"]
              /\ UNCHANGED <<outcome, error>>
         ELSE /\ outcome' = [outcome EXCEPT ![i] = "raised"]
              /\ error' = [error EXCEPT ![i] =
                    Err("BotoCoreError", "", Fmt(event[i]["region"]))]
              /\ pc' = [pc EXCEPT ![i] = "done"]
              /\ UNCHANGED client
    /\ UNCHANGED <<event, input, logs, session, stsCalls, cbCalls, stsResp,
                   cbResp, stsIssued>>

\* lines 128-134 with 57-81
StartCodebuildProject(i) ==
    /\ pc[i] = "start_codebuild_project"
    /\ \E resp \in {[status |-> "fail", id |-> "", builds |-> <<>>]}
                   \cup {[status |-> "ok", id |-> b, builds |-> <<>>] : b \in BuildIds} :
         LET r == start_codebuild_project(event[i]["codeBuildProject"], resp) IN
         /\ cbCalls' = [cbCalls EXCEPT ![i] = Append(@,
                [op |-> "start_build", cred |-> client[i].cred,
                 region |-> client[i].region,
                 name |-> event[i]["codeBuildProject"],
                 env |-> event[i]["environmentVariables"]])]
         /\ cbResp' = [cbResp EXCEPT ![i] = resp]
         /\ error' = [error EXCEPT ![i] = r.error]
         /\ IF r.raised
            THEN /\ logs' = [logs EXCEPT ![i] = @ \o r.logs]
                 /\ outcome' = [outcome EXCEPT ![i] = "raised"]
                 /\ UNCHANGED event
            ELSE /\ logs' = [logs EXCEPT ![i] = @ \o r.logs \o
                       <<Log("info", "CodeBuild Job started successfully, ID: ", r.id)>>]
                 /\ outcome' = [outcome EXCEPT ![i] = "returned"]
                 /\ event' = [event EXCEPT ![i] = start_build_result(@, r.id)]
    /\ pc' = [pc EXCEPT ![i] = "done"]
    /\ UNCHANGED <<input, session, client, stsCalls, stsResp, stsIssued>>

\* lines 157-163 with 84-103
CheckCodebuildStatus(i) ==
    /\ pc[i] = "check_codebuild_status"
    /\ \E resp \in {[status |-> "fail", id |-> "", builds |-> <<>>]}
                   \cup {[status |-> "ok", id |-> "", builds |-> bl] : bl \in BuildLists} :
         LET r == check_codebuild_status(event[i]["jobId"], resp) IN
         /\ cbCalls' = [cbCalls EXCEPT ![i] = Append(@,
                [op |-> "batch_get_builds", cred |-> client[i].cred,
                 region |-> client[i].region,
                 name |-> event[i]["jobId"],
                 env |-> None])]
         /\ cbResp' = [cbResp EXCEPT ![i] = resp]
         /\ error' = [error EXCEPT ![i] = r.error]
         /\ IF r.raised
            THEN /\ logs' = [logs EXCEPT ![i] = @ \o r.logs]
                 /\ outcome' = [outcome EXCEPT ![i] = "raised"]
                 /\ UNCHANGED event
            ELSE /\ logs' = [logs EXCEPT ![i] = @ \o r.logs \o
                       <<Log("info", "CodeBuild Job Status: ", r.status)>>]
                 /\ outcome' = [outcome EXCEPT ![i] = "returned"]
                 /\ event' = [event EXCEPT ![i] = check_status_result(@, r.status)]
    /\ pc' = [pc EXCEPT ![i] = "done"]
    /\ UNCHANGED <<input, session, client, stsCalls, stsResp, stsIssued>>

Next ==
    \E i \in Invocations :
        \/ LambdaHandler(i)
        \/ StartBuildHandler(i)
        \/ CheckBuildStatusHandler(i)
        \/ AssumeRole(i)
        \/ CreateClient(i)
        \/ StartCodebuildProject(i)
        \/ CheckCodebuildStatus(i)

Spec == Init /\ [][Next]_vars

SpecConc == InitConc /\ [][Next]_vars

\* ------------------------------------------------------------- properties
ResultKeys == {"CodeBuildJobStatus", "CodeBuildJobId"}
FalsyValues == {None, Str(""), EmptyList}

\* key k is present in ev with a non-empty value
Supplied(ev, k) == k \in DOMAIN ev /\ ev[k] \notin FalsyValues

IsKind(ev, kind) == "invocationType" \in DOMAIN ev /\ ev["invocationType"] = Str(kind)

ValidStart(ev) ==
    /\ IsKind(ev, "START_BUILD")
    /\ Supplied(ev, "roleArn") /\ Supplied(ev, "codeBuildProject") /\ Supplied(ev, "region")

ValidCheck(ev) ==
    /\ IsKind(ev, "CHECK_STATUS")
    /\ Supplied(ev, "roleArn") /\ Supplied(ev, "jobId") /\ Supplied(ev, "region")

NoCalls(i) == stsCalls[i] = <<>> /\ cbCalls[i] = <<>>

ExceptionLogs(i) == {n \in 1..Len(logs[i]) : logs[i][n].level = "exception"}

\* C1: a valid START_BUILD whose role assumption and start-build call both
\* succeed returns the event with CodeBuildJobStatus "IN_PROGRESS" and
\* CodeBuildJobId the id of the start-build response, overwriting old values.
C1_StartBuildResult ==
    \A i \in Invocations :
        (/\ ValidStart(input[i])
         /\ stsResp[i] = "ok"
         /\ cbResp[i].status = "ok")
        => /\ outcome[i] = "returned"
           /\ ResultKeys \subseteq DOMAIN event[i]
           /\ event[i]["CodeBuildJobStatus"] = Str("IN_PROGRESS")
           /\ event[i]["CodeBuildJobId"] = Str(cbResp[i].id)

C1_Witness ==
    \E i \in Invocations :
        /\ ValidStart(input[i]) /\ outcome[i] = "returned"
        /\ ResultKeys \subseteq DOMAIN input[i]
        /\ cbResp[i].id = "proj:efgh"

\* C2: a valid CHECK_STATUS whose role assumption succeeds and whose
\* batch-get-builds call returns at least one build returns the event with
\* CodeBuildJobStatus the buildStatus of the first build, unmapped, and
\* CodeBuildJobId the input jobId.
C2_CheckStatusResult ==
    \A i \in Invocations :
        (/\ ValidCheck(input[i])
         /\ stsResp[i] = "ok"
         /\ cbResp[i].status = "ok"
         /\ Len(cbResp[i].builds) >= 1)
        => /\ outcome[i] = "returned"
           /\ ResultKeys \subseteq DOMAIN event[i]
           /\ event[i]["CodeBuildJobStatus"] = Str(cbResp[i].builds[1])
           /\ event[i]["CodeBuildJobId"] = input[i]["jobId"]

C2_Witness ==
    \E i \in Invocations :
        /\ ValidCheck(input[i]) /\ outcome[i] = "returned"
        /\ Len(cbResp[i].builds) = 2
        /\ cbResp[i].builds[1] = "SUCCEEDED"
        /\ cbResp[i].builds[2] = "IN_PROGRESS"

\* C3: a START_BUILD lacking a non-empty roleArn, codeBuildProject or region,
\* and a CHECK_STATUS lacking a non-empty roleArn, jobId or region, ends with a
\* raised error and makes no role-assumption and no build-service call.
C3_ValidationBeforeCalls ==
    \A i \in Invocations :
        (\/ IsKind(input[i], "START_BUILD") /\ ~ValidStart(input[i])
         \/ IsKind(input[i], "CHECK_STATUS") /\ ~ValidCheck(input[i]))
        => /\ NoCalls(i)
           /\ outcome[i] \in {"running", "raised"}
           /\ pc[i] = "done" => outcome[i] = "raised" /\ error[i].type \in {"KeyError", "Exception"}

C3_Witness ==
    \E i \in Invocations :
        /\ IsKind(input[i], "CHECK_STATUS")
        /\ Supplied(input[i], "roleArn") /\ Supplied(input[i], "jobId")
        /\ "region" \in DOMAIN input[i] /\ input[i]["region"] = Str("")
        /\ pc[i] = "done" /\ outcome[i] = "raised"

\* C4: a valid START_BUILD without the environmentVariables key passes
\* validation, makes the role-assumption call and issues start-build with an
\* empty list of overrides.
C4_OmittedEnvDefaults ==
    \A i \in Invocations :
        (/\ ValidStart(input[i])
         /\ "environmentVariables" \notin DOMAIN input[i]
         /\ pc[i] = "done")
        => /\ Len(stsCalls[i]) = 1
           /\ error[i].type \notin {"KeyError", "Exception"}
           /\ \A n \in 1..Len(cbCalls[i]) : cbCalls[i][n].env = EmptyList

\* C5: when the role-assumption call fails no build-service call is made and
\* the invocation ends with a raised error; a build-service call is made only
\* after a successful role-assumption call of the same invocation.
C5_NoBuildCallWithoutRole ==
    \A i \in Invocations :
        /\ stsResp[i] = "fail" =>
              /\ cbCalls[i] = <<>>
              /\ pc[i] = "done" /\ outcome[i] = "raised"
        /\ cbCalls[i] # <<>> => stsResp[i] = "ok" /\ session[i] # 0

C5_Witness ==
    \E i \in Invocations :
        /\ stsResp[i] = "fail" /\ pc[i] = "done" /\ IsKind(input[i], "CHECK_STATUS")

\* C6 as stated: a successful invocation returns the input with every key other
\* than the two result fields unchanged and no other key added.
C6_InputPlusResultFields ==
    \A i \in Invocations :
        outcome[i] = "returned" =>
            /\ DOMAIN event[i] = DOMAIN input[i] \cup ResultKeys
            /\ \A k \in DOMAIN input[i] \ ResultKeys : event[i][k] = input[i][k]

\* C6 amended: as above, except that START_BUILD replaces an
\* environmentVariables value that is falsy (null, empty) by the empty list.
C6_InputPlusResultFieldsEnvNormalised ==
    \A i \in Invocations :
        outcome[i] = "returned" =>
            /\ DOMAIN event[i] = DOMAIN input[i] \cup ResultKeys
            /\ \A k \in DOMAIN input[i] \ ResultKeys :
                  IF /\ k = "environmentVariables"
                     /\ IsKind(input[i], "START_BUILD")
                     /\ input[i][k] \in FalsyValues
                  THEN event[i][k] = EmptyList
                  ELSE event[i][k] = input[i][k]

C6_Witness ==
    \E i \in Invocations :
        /\ outcome[i] = "returned"
        /\ IsKind(input[i], "START_BUILD")
        /\ input[i]["environmentVariables"] = None
        /\ "executionName" \in DOMAIN input[i]

\* C7: a failed role-assumption, start-build or batch-get-builds call emits
\* exactly one exception log record and ends the invocation with a RuntimeError
\* whose message names the roleArn, the codeBuildProject or the jobId.
C7_FailureLoggedOnceAndRaised ==
    \A i \in Invocations :
        /\ stsResp[i] = "fail" =>
              /\ outcome[i] = "raised" /\ error[i].type = "RuntimeError"
              /\ error[i].msg[2] = input[i]["roleArn"][2]
              /\ Cardinality(ExceptionLogs(i)) = 1
        /\ (cbResp[i].status = "fail" /\ IsKind(input[i], "START_BUILD")) =>
              /\ outcome[i] = "raised" /\ error[i].type = "RuntimeError"
              /\ error[i].msg[2] = input[i]["codeBuildProject"][2]
              /\ Cardinality(ExceptionLogs(i)) = 1
        /\ (cbResp[i].status = "fail" /\ IsKind(input[i], "CHECK_STATUS")) =>
              /\ outcome[i] = "raised" /\ error[i].type = "RuntimeError"
              /\ error[i].msg[2] = input[i]["jobId"][2]
              /\ Cardinality(ExceptionLogs(i)) = 1

C7_Witness ==
    \E i \in Invocations :
        /\ cbResp[i].status = "fail" /\ IsKind(input[i], "START_BUILD")
        /\ outcome[i] = "raised"

\* C8 as stated: an unrecognised or missing invocationType returns None without
\* an error, without any call and without modifying the event.
C8_UnknownOrMissingKindReturnsNone ==
    \A i \in Invocations :
        (/\ pc[i] = "done"
         /\ ~IsKind(input[i], "START_BUILD") /\ ~IsKind(input[i], "CHECK_STATUS"))
        => /\ outcome[i] = "returnedNone" /\ error[i] = NoError
           /\ NoCalls(i) /\ event[i] = input[i]

\* C8 amended: an invocationType that is present and unrecognised returns None
\* without an error; a missing invocationType raises KeyError; in both cases no
\* call is made and the event is not modified.
C8_UnknownKindReturnsNoneMissingRaises ==
    \A i \in Invocations :
        (/\ pc[i] = "done"
         /\ ~IsKind(input[i], "START_BUILD") /\ ~IsKind(input[i], "CHECK_STATUS"))
        => /\ NoCalls(i) /\ event[i] = input[i]
           /\ IF "invocationType" \in DOMAIN input[i]
              THEN outcome[i] = "returnedNone" /\ error[i] = NoError
              ELSE outcome[i] = "raised" /\ error[i] = KeyError("invocationType")

C8_Witness ==
    \E i \in Invocations :
        /\ pc[i] = "done" /\ outcome[i] = "returnedNone"
        /\ input[i]["invocationType"] = Str("STOP_BUILD")
        /\ Supplied(input[i], "roleArn") /\ Supplied(input[i], "jobId")
        /\ Supplied(input[i], "region")

\* C9: an invocation makes at most one role-assumption call and at most one
\* build-service call, the latter of the kind of its invocationType and after
\* the former; a returned invocation has made exactly one of each.
C9_SingleAttempt ==
    \A i \in Invocations :
        /\ Len(stsCalls[i]) <= 1
        /\ Len(cbCalls[i]) <= 1
        /\ cbCalls[i] # <<>> =>
              /\ Len(stsCalls[i]) = 1
              /\ cbCalls[i][1].op = "start_build" <=> IsKind(input[i], "START_BUILD")
              /\ cbCalls[i][1].op = "batch_get_builds" <=> IsKind(input[i], "CHECK_STATUS")
        /\ outcome[i] = "returned" => Len(stsCalls[i]) = 1 /\ Len(cbCalls[i]) = 1

C9_Witness ==
    \E i \in Invocations :
        /\ outcome[i] = "returned" /\ IsKind(input[i], "CHECK_STATUS")
        /\ Supplied(input[i], "codeBuildProject")
        /\ "environmentVariables" \in DOMAIN input[i]
        /\ Len(stsCalls[i]) = 1 /\ Len(cbCalls[i]) = 1

\* the part of the state an invocation's result may depend on
Responses(i) == <<input[i], stsResp[i], client[i] = NoClient, cbResp[i]>>

\* C10: under interleaved invocations every build-service call carries the
\* credentials its own invocation obtained, and two finished invocations with
\* the same event and the same responses have the same result.
C10_InvocationsIndependent ==
    \A i \in Invocations :
        /\ \A n \in 1..Len(cbCalls[i]) :
              /\ cbCalls[i][n].cred \in 1..Len(stsIssued)
              /\ stsIssued[cbCalls[i][n].cred] = i
              /\ cbCalls[i][n].cred = session[i]
        /\ \A j \in Invocations :
              (pc[i] = "done" /\ pc[j] = "done" /\ Responses(i) = Responses(j))
              => /\ outcome[i] = outcome[j]
                 /\ error[i] = error[j]
                 /\ event[i] = event[j]

C10_Witness ==
    \E i, j \in Invocations :
        /\ i # j
        /\ Len(cbCalls[i]) = 1 /\ outcome[i] = "returned"
        /\ session[j] > session[i]
        /\ pc[j] \in {"start_codebuild_project", "check_codebuild_status"}


====
